---- MODULE Spec2Model ----
(***************************************************************************)
(* Model of the Affinity MCP server (src/src/index.ts).                    *)
(*                                                                         *)
(* The source file holds two revisions of the entry module, one after the  *)
(* other: lines 1-117 (five tools) and lines 119-449 (nineteen tools).     *)
(* Each revision starts with its own shebang line and imports and builds   *)
(* its own `server`, so each is modelled as a program of its own; `rev`    *)
(* says which one runs.                                                    *)
(*                                                                         *)
(* JSON values are records [t, n, s]: t is the JavaScript/zod type of the  *)
(* value, n its number (or the one element of a number array), s its       *)
(* string.  Argument objects are functions from keys to such values.       *)
(***************************************************************************)
EXTENDS Integers, Sequences, FiniteSets, TLC

VARIABLES rev, clients, phase, regIdx, registry, serverTransport, req

vars == <<rev, clients, phase, regIdx, registry, serverTransport, req>>

(* The largest number of clients whose calls can be in flight at the same  *)
(* time.  A run has `clients` of them; request slot r holds the call of    *)
(* client r that is in flight, or its last finished one.                   *)
MaxClients == 2

Slots == 1..MaxClients

-----------------------------------------------------------------------------
(* JSON values *)

Num(n) == [t |-> "number", n |-> n, s |-> ""]
Str(s) == [t |-> "string", n |-> 0, s |-> s]
ArrNum(n) == [t |-> "array_number", n |-> n, s |-> ""]
ArrStr(s) == [t |-> "array_string", n |-> 0, s |-> s]
NoVal == [t |-> "undefined", n |-> 0, s |-> ""]

NoArgs == [k \in {} |-> NoVal]

Put(f, k, v) == [y \in (DOMAIN f) \cup {k} |-> IF y = k THEN v ELSE f[y]]

Restrict(f, ks) == [y \in (DOMAIN f) \cap ks |-> f[y]]

Without(f, k) == Restrict(f, (DOMAIN f) \ {k})

-----------------------------------------------------------------------------
(* zod field declarations: z.string(), z.number(), z.array(...), z.enum,   *)
(* z.unknown(), with .optional() or .default(v).                           *)

Req(type) == [type |-> type, presence |-> "required", def |-> NoVal]
Opt(type) == [type |-> type, presence |-> "optional", def |-> NoVal]
Def(type, v) == [type |-> type, presence |-> "default", def |-> v]

ParentTypes == {"person", "organization", "opportunity"}

SearchSchema ==
  [shape |-> [term |-> Opt("string"),
              page_size |-> Def("number", Num(20)),
              page_token |-> Opt("string")],
   strict |-> TRUE]

IDSchema ==
  [shape |-> [id |-> Req("number")], strict |-> TRUE]

CreatePersonSchema_Passthrough ==
  [shape |-> [first_name |-> Req("string"),
              last_name |-> Req("string"),
              emails |-> Opt("array_string"),
              organization_ids |-> Opt("array_number")],
   strict |-> FALSE]

CreatePersonSchema ==
  [shape |-> [first_name |-> Req("string"),
              last_name |-> Req("string"),
              emails |-> Opt("array_string"),
              organization_ids |-> Opt("array_number")],
   strict |-> TRUE]

UpdatePersonSchema ==
  [shape |-> [person_id |-> Req("number"),
              first_name |-> Opt("string"),
              last_name |-> Opt("string"),
              emails |-> Opt("array_string"),
              organization_ids |-> Opt("array_number")],
   strict |-> TRUE]

CreateOrgSchema ==
  [shape |-> [name |-> Req("string"),
              domain |-> Opt("string"),
              person_ids |-> Opt("array_number")],
   strict |-> TRUE]

UpdateOrgSchema ==
  [shape |-> [organization_id |-> Req("number"),
              name |-> Opt("string"),
              domain |-> Opt("string"),
              person_ids |-> Opt("array_number")],
   strict |-> TRUE]

SearchOpportunitiesSchema ==
  [shape |-> [term |-> Opt("string"),
              page_size |-> Def("number", Num(20))],
   strict |-> TRUE]

CreateOpportunitySchema ==
  [shape |-> [name |-> Req("string"),
              person_ids |-> Opt("array_number"),
              organization_ids |-> Opt("array_number")],
   strict |-> TRUE]

CreateNoteSchema ==
  [shape |-> [parent_id |-> Req("number"),
              parent_type |-> Req("enum"),
              content |-> Req("string")],
   strict |-> TRUE]

GetNotesSchema ==
  [shape |-> [parent_id |-> Req("number"),
              parent_type |-> Req("enum")],
   strict |-> TRUE]

AddToListSchema ==
  [shape |-> [list_id |-> Req("number"),
              entity_id |-> Req("number")],
   strict |-> TRUE]

RemoveFromListSchema ==
  [shape |-> [list_entry_id |-> Req("number")], strict |-> TRUE]

GetListEntriesSchema ==
  [shape |-> [list_id |-> Req("number"),
              page_size |-> Def("number", Num(20))],
   strict |-> TRUE]

(* z.unknown() accepts every value, undefined included, so the key may be  *)
(* absent.                                                                 *)
UpdateFieldValueSchema ==
  [shape |-> [field_id |-> Req("number"),
              entity_id |-> Req("number"),
              value |-> Opt("unknown")],
   strict |-> TRUE]

GetFieldValuesSchema ==
  [shape |-> [entity_id |-> Req("number")], strict |-> TRUE]

(* z.object({}).strict(), the input schema of the two tools without        *)
(* arguments.                                                              *)
EmptySchema ==
  [shape |-> [k \in {} |-> Req("string")], strict |-> TRUE]

Schema(id) ==
  CASE id = "SearchSchema" -> SearchSchema
    [] id = "IDSchema" -> IDSchema
    [] id = "CreatePersonSchema" -> CreatePersonSchema
    [] id = "UpdatePersonSchema" -> UpdatePersonSchema
    [] id = "CreateOrgSchema" -> CreateOrgSchema
    [] id = "UpdateOrgSchema" -> UpdateOrgSchema
    [] id = "SearchOpportunitiesSchema" -> SearchOpportunitiesSchema
    [] id = "CreateOpportunitySchema" -> CreateOpportunitySchema
    [] id = "CreateNoteSchema" -> CreateNoteSchema
    [] id = "GetNotesSchema" -> GetNotesSchema
    [] id = "AddToListSchema" -> AddToListSchema
    [] id = "RemoveFromListSchema" -> RemoveFromListSchema
    [] id = "GetListEntriesSchema" -> GetListEntriesSchema
    [] id = "UpdateFieldValueSchema" -> UpdateFieldValueSchema
    [] id = "GetFieldValuesSchema" -> GetFieldValuesSchema
    [] OTHER -> EmptySchema

(* Whether a field declaration accepts a value. *)
Accepts(fs, v) ==
  CASE fs.type = "unknown" -> TRUE
    [] fs.type = "enum" -> v.t = "string" /\ v.s \in ParentTypes
    [] OTHER -> v.t = fs.type

(* schema.parse(raw) of a z.object: a required key must be present, every  *)
(* present declared key must have its type, a strict object rejects keys   *)
(* it does not declare (a non-strict one drops them), and a key with a     *)
(* default gets it when absent.                                            *)
Parse(schema, raw) ==
  LET shape == schema.shape
      keys == DOMAIN shape
      missing == {k \in keys \ DOMAIN raw : shape[k].presence = "required"}
      bad == {k \in keys \cap DOMAIN raw : ~Accepts(shape[k], raw[k])}
      unknown == (DOMAIN raw) \ keys
      ok == missing = {} /\ bad = {} /\ (schema.strict => unknown = {})
      outKeys == (keys \cap DOMAIN raw)
                   \cup {k \in keys : shape[k].presence = "default"}
  IN [ok |-> ok,
      data |-> IF ok
               THEN [k \in outKeys |->
                       IF k \in DOMAIN raw THEN raw[k] ELSE shape[k].def]
               ELSE NoArgs]

-----------------------------------------------------------------------------
(* Outbound calls through the axios client `api`, and what comes back. *)

Path(prefix, id, suffix) == [prefix |-> prefix, id |-> id, suffix |-> suffix]

Call(method, path, query, body) ==
  [method |-> method, path |-> path, query |-> query, body |-> body]

NoCall == Call("", Path("", NoVal, ""), NoArgs, NoArgs)

NoData == [id |-> 0, first_name |-> "", last_name |-> "", name |-> "",
           entries |-> {}]

(* The fields of a response body that a reply text interpolates. *)
Pick(data, fs) ==
  [id |-> IF "id" \in fs THEN data.id ELSE 0,
   first_name |-> IF "first_name" \in fs THEN data.first_name ELSE "",
   last_name |-> IF "last_name" \in fs THEN data.last_name ELSE "",
   name |-> IF "name" \in fs THEN data.name ELSE "",
   entries |-> {}]

(* { content: [{ type: "text", text }] }: one text item, given by its      *)
(* template and the response fields put into it.                           *)
Text(template, data) == [text |-> template, data |-> data]

(* JSON.stringify(res.data, null, 2) *)
Json(data) == Text("{json}", data)

NoReply == Text("", NoData)

FailureKinds == {"status", "network", "timeout"}

Ok(data) == [ok |-> TRUE, data |-> data, err |-> ""]

Fail(e) == [ok |-> FALSE, data |-> NoData, err |-> e]

RemoteEntity ==
  [id |-> 42, first_name |-> "Ada", last_name |-> "Lovelace",
   name |-> "Acme", entries |-> {}]

(* What the remote API can answer to a call: a body, or a failure.  A GET  *)
(* of the field values can return a collection with an entry of the field  *)
(* asked for, with an entry of another field, or without entries.          *)
Responses(call) ==
  {Fail(e) : e \in FailureKinds}
    \cup {Ok(RemoteEntity)}
    \cup IF call.method = "GET" /\ call.path.prefix = "/field-values"
         THEN {Ok([RemoteEntity EXCEPT
                     !.entries = {[id |-> 99, field_id |-> 7]}]),
               Ok([RemoteEntity EXCEPT
                     !.entries = {[id |-> 98, field_id |-> 8]}])}
         ELSE {}

-----------------------------------------------------------------------------
(* Tool handlers.  A handler is an async function; it is modelled by what  *)
(* it does next given the responses `rs` its awaits have received so far:  *)
(* issue a call, return a reply, or throw.                                 *)

DoCall(call) == [op |-> "call", call |-> call, reply |-> NoReply, err |-> ""]

Return(reply) == [op |-> "return", call |-> NoCall, reply |-> reply, err |-> ""]

Throw(e) == [op |-> "throw", call |-> NoCall, reply |-> NoReply, err |-> e]

Data(rs) == IF Len(rs) > 0 THEN rs[1].data ELSE NoData

(* `const res = await api.<method>(...); return {...}` with no catch: one  *)
(* call, then the reply, or the rejection thrown on.                       *)
Await(rs, call, reply) ==
  IF Len(rs) = 0 THEN DoCall(call)
  ELSE IF rs[1].ok THEN Return(reply)
  ELSE Throw(rs[1].err)

affinity_search_people_Retry(params, rs) ==
  LET call == Call("GET", Path("/persons", NoVal, ""), params, NoArgs)
  IN IF Len(rs) = 0 THEN DoCall(call)
     ELSE IF rs[Len(rs)].ok THEN Return(Json(rs[Len(rs)].data))
     ELSE IF Len(rs) = 1 THEN DoCall(call)
     ELSE Throw(rs[Len(rs)].err)

affinity_search_people(params, rs) ==
  Await(rs, Call("GET", Path("/persons", NoVal, ""), params, NoArgs),
        Json(Data(rs)))

affinity_get_person(params, rs) ==
  Await(rs, Call("GET", Path("/persons/", params.id, ""), NoArgs, NoArgs),
        Json(Data(rs)))

affinity_create_person(params, rs) ==
  Await(rs, Call("POST", Path("/persons", NoVal, ""), NoArgs, params),
        Text("Person created: {first_name} {last_name} (ID: {id})",
             Pick(Data(rs), {"first_name", "last_name", "id"})))

affinity_update_person(params, rs) ==
  Await(rs, Call("PUT", Path("/persons/", params.person_id, ""), NoArgs,
                 Without(params, "person_id")),
        Text("Person updated: {first_name} {last_name}",
             Pick(Data(rs), {"first_name", "last_name"})))

affinity_search_organizations(params, rs) ==
  Await(rs, Call("GET", Path("/organizations", NoVal, ""), params, NoArgs),
        Json(Data(rs)))

affinity_get_organization(params, rs) ==
  Await(rs, Call("GET", Path("/organizations/", params.id, ""), NoArgs, NoArgs),
        Json(Data(rs)))

affinity_create_organization(params, rs) ==
  Await(rs, Call("POST", Path("/organizations", NoVal, ""), NoArgs, params),
        Text("Organization created: {name} (ID: {id})",
             Pick(Data(rs), {"name", "id"})))

affinity_update_organization(params, rs) ==
  Await(rs, Call("PUT", Path("/organizations/", params.organization_id, ""),
                 NoArgs, Without(params, "organization_id")),
        Text("Organization updated: {name}", Pick(Data(rs), {"name"})))

affinity_search_opportunities(params, rs) ==
  Await(rs, Call("GET", Path("/opportunities", NoVal, ""), params, NoArgs),
        Json(Data(rs)))

affinity_create_opportunity(params, rs) ==
  Await(rs, Call("POST", Path("/opportunities", NoVal, ""), NoArgs, params),
        Text("Opportunity created: {name} (ID: {id})",
             Pick(Data(rs), {"name", "id"})))

affinity_create_note(params, rs) ==
  Await(rs, Call("POST", Path("/notes", NoVal, ""), NoArgs, params),
        Text("Note created successfully (ID: {id})", Pick(Data(rs), {"id"})))

affinity_get_notes(params, rs) ==
  Await(rs, Call("GET", Path("/notes", NoVal, ""),
                 [parent_id |-> params.parent_id,
                  parent_type |-> params.parent_type], NoArgs),
        Json(Data(rs)))

affinity_list_all_lists(params, rs) ==
  Await(rs, Call("GET", Path("/lists", NoVal, ""), NoArgs, NoArgs),
        Json(Data(rs)))

affinity_get_list_entries_NoPageSize(params, rs) ==
  Await(rs, Call("GET", Path("/lists/", params.list_id, "/list-entries"),
                 NoArgs, NoArgs),
        Json(Data(rs)))

affinity_get_list_entries(params, rs) ==
  Await(rs, Call("GET", Path("/lists/", params.list_id, "/list-entries"),
                 [page_size |-> params.page_size], NoArgs),
        Json(Data(rs)))

affinity_add_to_list(params, rs) ==
  Await(rs, Call("POST", Path("/lists/", params.list_id, "/list-entries"),
                 NoArgs, [entity_id |-> params.entity_id]),
        Text("Added to list successfully (Entry ID: {id})",
             Pick(Data(rs), {"id"})))

affinity_remove_from_list_Post(params, rs) ==
  Await(rs, Call("POST", Path("/list-entries/", params.list_entry_id, ""),
                 NoArgs, NoArgs),
        Text("Removed from list successfully", NoData))

affinity_remove_from_list(params, rs) ==
  Await(rs, Call("DELETE", Path("/list-entries/", params.list_entry_id, ""),
                 NoArgs, NoArgs),
        Text("Removed from list successfully", NoData))

affinity_get_all_fields(params, rs) ==
  Await(rs, Call("GET", Path("/fields", NoVal, ""), NoArgs, NoArgs),
        Json(Data(rs)))

affinity_get_field_values(params, rs) ==
  Await(rs, Call("GET", Path("/field-values", NoVal, ""),
                 [entity_id |-> params.entity_id], NoArgs),
        Json(Data(rs)))

affinity_update_field_value(params, rs) ==
  Await(rs, Call("PUT", Path("/field-values", NoVal, ""), NoArgs, params),
        Text("Field value updated successfully", NoData))

(* The callback a descriptor holds, applied. *)
Handler(h, params, rs) ==
  CASE h = "affinity_search_people" -> affinity_search_people(params, rs)
    [] h = "affinity_get_person" -> affinity_get_person(params, rs)
    [] h = "affinity_create_person" -> affinity_create_person(params, rs)
    [] h = "affinity_update_person" -> affinity_update_person(params, rs)
    [] h = "affinity_search_organizations" ->
         affinity_search_organizations(params, rs)
    [] h = "affinity_get_organization" -> affinity_get_organization(params, rs)
    [] h = "affinity_create_organization" ->
         affinity_create_organization(params, rs)
    [] h = "affinity_update_organization" ->
         affinity_update_organization(params, rs)
    [] h = "affinity_search_opportunities" ->
         affinity_search_opportunities(params, rs)
    [] h = "affinity_create_opportunity" ->
         affinity_create_opportunity(params, rs)
    [] h = "affinity_create_note" -> affinity_create_note(params, rs)
    [] h = "affinity_get_notes" -> affinity_get_notes(params, rs)
    [] h = "affinity_list_all_lists" -> affinity_list_all_lists(params, rs)
    [] h = "affinity_get_list_entries" -> affinity_get_list_entries(params, rs)
    [] h = "affinity_add_to_list" -> affinity_add_to_list(params, rs)
    [] h = "affinity_remove_from_list" -> affinity_remove_from_list(params, rs)
    [] h = "affinity_get_all_fields" -> affinity_get_all_fields(params, rs)
    [] h = "affinity_get_field_values" -> affinity_get_field_values(params, rs)
    [] h = "affinity_update_field_value" ->
         affinity_update_field_value(params, rs)

-----------------------------------------------------------------------------
(* The registerTool calls of each revision, in source order. *)

Tool(name, schemaId, readOnly) ==
  [name |-> name, inputSchema |-> schemaId, readOnlyHint |-> readOnly,
   handler |-> name]

Registrations1_Twice ==
  << Tool("affinity_search_people", "SearchSchema", TRUE),
     Tool("affinity_create_person", "CreatePersonSchema", FALSE),
     Tool("affinity_search_organizations", "SearchSchema", TRUE),
     Tool("affinity_create_organization", "CreateOrgSchema", FALSE),
     Tool("affinity_create_note", "CreateNoteSchema", FALSE),
     Tool("affinity_search_people", "SearchSchema", TRUE) >>

Registrations1 ==
  << Tool("affinity_search_people", "SearchSchema", TRUE),
     Tool("affinity_create_person", "CreatePersonSchema", FALSE),
     Tool("affinity_search_organizations", "SearchSchema", TRUE),
     Tool("affinity_create_organization", "CreateOrgSchema", FALSE),
     Tool("affinity_create_note", "CreateNoteSchema", FALSE) >>

Registrations2 ==
  << Tool("affinity_search_people", "SearchSchema", TRUE),
     Tool("affinity_get_person", "IDSchema", TRUE),
     Tool("affinity_create_person", "CreatePersonSchema", FALSE),
     Tool("affinity_update_person", "UpdatePersonSchema", FALSE),
     Tool("affinity_search_organizations", "SearchSchema", TRUE),
     Tool("affinity_get_organization", "IDSchema", TRUE),
     Tool("affinity_create_organization", "CreateOrgSchema", FALSE),
     Tool("affinity_update_organization", "UpdateOrgSchema", FALSE),
     Tool("affinity_search_opportunities", "SearchOpportunitiesSchema", TRUE),
     Tool("affinity_create_opportunity", "CreateOpportunitySchema", FALSE),
     Tool("affinity_create_note", "CreateNoteSchema", FALSE),
     Tool("affinity_get_notes", "GetNotesSchema", TRUE),
     Tool("affinity_list_all_lists", "EmptySchema", TRUE),
     Tool("affinity_get_list_entries", "GetListEntriesSchema", TRUE),
     Tool("affinity_add_to_list", "AddToListSchema", FALSE),
     Tool("affinity_remove_from_list", "RemoveFromListSchema", FALSE),
     Tool("affinity_get_all_fields", "EmptySchema", TRUE),
     Tool("affinity_get_field_values", "GetFieldValuesSchema", TRUE),
     Tool("affinity_update_field_value", "UpdateFieldValueSchema", FALSE) >>

Registrations_Alias(r) ==
  Append(IF r = 1 THEN Registrations1 ELSE Registrations2,
         [name |-> "affinity_delete_person", inputSchema |-> "EmptySchema",
          readOnlyHint |-> FALSE, handler |-> "affinity_list_all_lists"])

Registrations(r) == IF r = 1 THEN Registrations1 ELSE Registrations2

-----------------------------------------------------------------------------
(* The inbound calls the model tries: every registered name and some       *)
(* unregistered ones, each with argument objects built around the tool's   *)
(* declared shape: the required keys alone, one required key missing, one  *)
(* key with a value of the wrong type, an undeclared key, and an optional  *)
(* key supplied.                                                           *)

UnknownNames == {"affinity_delete_person", "affinity_upsert_field_value"}

ToolNames(r) == {Registrations(r)[i].name : i \in 1..Len(Registrations(r))}

Names == ToolNames(1) \cup ToolNames(2) \cup UnknownNames

ProbedOptional == {"page_size", "term", "value"}

Samples(fs) ==
  CASE fs.type = "number" -> {Num(7)}
    [] fs.type = "string" -> {Str("Ada")}
    [] fs.type = "enum" -> {Str(p) : p \in ParentTypes}
    [] fs.type = "array_number" -> {ArrNum(7)}
    [] fs.type = "array_string" -> {ArrStr("ada@example.org")}
    [] OTHER -> {Str("Ada"), Num(7)}

WrongSamples(fs) ==
  CASE fs.type = "number" -> {Str("7")}
    [] fs.type = "enum" -> {Str("company")}
    [] fs.type = "unknown" -> {}
    [] OTHER -> {Num(1)}

RequiredKeys(shape) == {k \in DOMAIN shape : shape[k].presence = "required"}

Bases(shape) ==
  {b \in [RequiredKeys(shape) -> {Num(7), Str("Ada")} \cup {Str(p) : p \in ParentTypes}] :
     \A k \in RequiredKeys(shape) : b[k] \in Samples(shape[k])}

Payloads(shape) ==
  LET probed == RequiredKeys(shape) \cup ((DOMAIN shape) \cap ProbedOptional)
  IN Bases(shape)
       \cup {Without(b, k) : b \in Bases(shape), k \in RequiredKeys(shape)}
       \cup UNION {{Put(b, k, v) : v \in WrongSamples(shape[k])} :
                     b \in Bases(shape), k \in probed}
       \cup {Put(b, "bogus", Num(1)) : b \in Bases(shape)}
       \cup UNION {{Put(b, k, v) : v \in Samples(shape[k])} :
                     b \in Bases(shape), k \in (DOMAIN shape) \cap ProbedOptional}

DeclaredSchema(name) ==
  IF \E i \in 1..Len(Registrations2) : Registrations2[i].name = name
  THEN Schema((CHOOSE d \in {Registrations2[i] : i \in 1..Len(Registrations2)} :
                 d.name = name).inputSchema)
  ELSE EmptySchema

RawArgs(name) == Payloads(DeclaredSchema(name).shape)

(* The calls the clients of a run make.  A single client makes every call  *)
(* above; several concurrent clients make these few, which keeps the       *)
(* interleavings of their calls within reach of the model checker.         *)
ConcurrentCalls ==
  { <<"affinity_search_people", NoArgs>>,
    <<"affinity_search_people", Put(NoArgs, "bogus", Num(1))>>,
    <<"affinity_remove_from_list", Put(NoArgs, "list_entry_id", Num(7))>>,
    <<"affinity_delete_person", NoArgs>> }

AllCalls == UNION {{<<name, raw>> : raw \in RawArgs(name)} : name \in Names}

Workload(n) == IF n = 1 THEN AllCalls ELSE ConcurrentCalls

-----------------------------------------------------------------------------
(* Operation registry and dispatch adapter. *)

resolve(reg, name) == IF name \in DOMAIN reg THEN {reg[name]} ELSE {}

NoOutcome == [kind |-> "none", fault |-> "", detail |-> "", reply |-> NoReply]

Reply(reply) == [kind |-> "reply", fault |-> "", detail |-> "", reply |-> reply]

Fault(kind, detail) ==
  [kind |-> "fault", fault |-> kind, detail |-> detail, reply |-> NoReply]

(* handle(name, rawArgs) up to the handler's first step: an unknown name   *)
(* and arguments that fail validation are faults and no handler runs;      *)
(* otherwise the handler gets the validated arguments.                     *)
handle(reg, name, raw) ==
  IF resolve(reg, name) = {}
  THEN [outcome |-> Fault("UnknownOperation", name), handler |-> "",
        params |-> NoArgs]
  ELSE LET d == CHOOSE x \in resolve(reg, name) : TRUE
           parsed == Parse(Schema(d.inputSchema), raw)
       IN IF ~parsed.ok
          THEN [outcome |-> Fault("InvalidArguments", d.inputSchema),
                handler |-> "", params |-> NoArgs]
          ELSE [outcome |-> NoOutcome, handler |-> d.handler,
                params |-> parsed.data]

(* The handler's result or failure as the reply envelope or fault. *)
Translate(step) ==
  IF step.op = "return" THEN Reply(step.reply)
  ELSE Fault("RemoteCallFailed", step.err)

-----------------------------------------------------------------------------
(* State *)

Idle ==
  [pc |-> "idle", conn |-> "closed", name |-> "", raw |-> NoArgs,
   handler |-> "", params |-> NoArgs, calls |-> << >>, resps |-> << >>,
   outcome |-> NoOutcome, delivered |-> "none", listed |-> {}]

Init ==
  /\ rev \in {1, 2}
  /\ clients \in 1..MaxClients
  /\ phase = "starting"
  /\ regIdx = 0
  /\ registry = [n \in {} |-> Tool("", "", FALSE)]
  /\ serverTransport = 0
  /\ req = [r \in Slots |-> Idle]

(* server.registerTool(name, config, cb): the next registration of the     *)
(* module body.  Registering a name that is already registered throws,     *)
(* and the module load fails.                                              *)
RegisterTool ==
  /\ phase = "starting"
  /\ regIdx < Len(Registrations(rev))
  /\ LET d == Registrations(rev)[regIdx + 1]
     IN IF d.name \in DOMAIN registry
        THEN /\ phase' = "fatal"
             /\ UNCHANGED <<regIdx, registry>>
        ELSE /\ registry' = Put(registry, d.name, d)
             /\ regIdx' = regIdx + 1
             /\ UNCHANGED phase
  /\ UNCHANGED <<rev, clients, serverTransport, req>>

(* main(): app.listen, after the module body has run. *)
Listen ==
  /\ phase = "starting"
  /\ regIdx = Len(Registrations(rev))
  /\ phase' = "serving"
  /\ UNCHANGED <<rev, clients, regIdx, registry, serverTransport, req>>

(* app.post("/mcp") for an invoke-operation request, up to the handler's   *)
(* first await: a fresh transport for this request, the `close` listener,  *)
(* server.connect(transport), which makes it the transport of the one      *)
(* module-level server, and transport.handleRequest, which dispatches the  *)
(* call.  A fault is answered at once, on this request's transport.        *)
Receive(r, name, raw) ==
  /\ phase = "serving"
  /\ r <= clients
  /\ <<name, raw>> \in Workload(clients)
  /\ \/ req[r].pc = "idle"
     \/ req[r].pc = "done" /\ req[r].conn = "closed"
  /\ serverTransport' = r
  /\ LET h == handle(registry, name, raw)
     IN IF h.handler = ""
        THEN req' = [req EXCEPT ![r] =
                       [Idle EXCEPT !.pc = "done", !.conn = "open",
                                    !.name = name, !.raw = raw,
                                    !.outcome = h.outcome,
                                    !.delivered = "own"]]
        ELSE LET step == Handler(h.handler, h.params, << >>)
             IN req' = [req EXCEPT ![r] =
                          [Idle EXCEPT !.pc = "await", !.conn = "open",
                                       !.name = name, !.raw = raw,
                                       !.handler = h.handler,
                                       !.params = h.params,
                                       !.calls = << step.call >>]]
  /\ UNCHANGED <<rev, clients, phase, regIdx, registry>>

(* app.post("/mcp") for a list-available-operations request: connected    *)
(* and answered like a call, with the registered names.                    *)
ListTools(r) ==
  /\ phase = "serving"
  /\ r <= clients
  /\ \/ req[r].pc = "idle"
     \/ req[r].pc = "done" /\ req[r].conn = "closed"
  /\ serverTransport' = r
  /\ req' = [req EXCEPT ![r] =
               [Idle EXCEPT !.pc = "done", !.conn = "open",
                            !.name = "tools/list",
                            !.outcome = Reply(Text("{tools}", NoData)),
                            !.delivered = "own",
                            !.listed = DOMAIN registry]]
  /\ UNCHANGED <<rev, clients, phase, regIdx, registry>>

(* The remote API answers the call a handler awaits; the handler runs on   *)
(* to its next call, to its reply or to its failure, and the result is     *)
(* sent.  The protocol layer sends on the transport it captured when the   *)
(* request came in or on the server's current transport, depending on its  *)
(* version (`via`); the caller gets the answer only over its own, still    *)
(* open, connection.                                                       *)
RemoteReturn(r) ==
  /\ req[r].pc = "await"
  /\ \E resp \in Responses(req[r].calls[Len(req[r].calls)]),
        via \in {r, serverTransport} :
       LET rs == Append(req[r].resps, resp)
           step == Handler(req[r].handler, req[r].params, rs)
       IN IF step.op = "call"
          THEN req' = [req EXCEPT ![r].resps = rs,
                                  ![r].calls = Append(@, step.call)]
          ELSE req' = [req EXCEPT ![r].resps = rs,
                                  ![r].pc = "done",
                                  ![r].outcome = Translate(step),
                                  ![r].delivered =
                                     IF via = r /\ req[r].conn = "open"
                                     THEN "own" ELSE "lost"]
  /\ UNCHANGED <<rev, clients, phase, regIdx, registry, serverTransport>>

(* res.on("close", () => transport.close()): the connection of request r   *)
(* closes (the response has ended, or the client went away); closing the   *)
(* transport runs the server's onclose, which drops the server's           *)
(* transport.                                                              *)
Close(r) ==
  /\ req[r].pc \in {"await", "done"}
  /\ req[r].conn = "open"
  /\ req' = [req EXCEPT ![r].conn = "closed"]
  /\ serverTransport' = 0
  /\ UNCHANGED <<rev, clients, phase, regIdx, registry>>

Next ==
  \/ RegisterTool
  \/ Listen
  \/ \E r \in Slots : \E c \in Workload(clients) : Receive(r, c[1], c[2])
  \/ \E r \in Slots : ListTools(r)
  \/ \E r \in Slots : RemoteReturn(r)
  \/ \E r \in Slots : Close(r)

Spec == Init /\ [][Next]_vars

-----------------------------------------------------------------------------
(* Properties *)

Ran(r) == req[r].handler # ""

Done(r) == req[r].pc = "done"

IsLookup(c) == c.method = "GET" /\ c.path.prefix = "/field-values"

IsUpdateTo(c, id) ==
  c.method = "PUT" /\ c.path = Path("/field-values/", Num(id), "")

IsCreate(c, params) ==
  /\ c.method = "POST"
  /\ c.path.prefix = "/field-values"
  /\ Restrict(c.body, {"field_id", "entity_id", "value"})
       = Restrict(params, {"field_id", "entity_id", "value"})

(* C1: a field-value update with valid arguments first issues a lookup;    *)
(* when the lookup returns an entry of the requested field, the one        *)
(* further call is an update addressed to that entry's id; when it         *)
(* returns none, the one further call is a create with the original field  *)
(* id, entity id and value.                                                *)
C1_LookupThenUpdateOrCreate ==
  \A r \in Slots :
    req[r].name = "affinity_update_field_value" /\ Ran(r) =>
      /\ IsLookup(req[r].calls[1])
      /\ Len(req[r].resps) >= 1 /\ req[r].resps[1].ok =>
           /\ Len(req[r].calls) = 2
           /\ LET found == {e \in req[r].resps[1].data.entries :
                              e.field_id = req[r].params.field_id.n}
              IN IF found # {}
                 THEN \E e \in found : IsUpdateTo(req[r].calls[2], e.id)
                 ELSE IsCreate(req[r].calls[2], req[r].params)

(* C2: when the first call of a field-value update, the lookup, fails,     *)
(* the failure is not surfaced: a create call follows, and the reply or    *)
(* fault is that of the create call alone.                                 *)
C2_LookupFailureFallsThroughToCreate ==
  \A r \in Slots :
    /\ req[r].name = "affinity_update_field_value"
    /\ Ran(r)
    /\ Len(req[r].resps) >= 1
    /\ ~req[r].resps[1].ok
    => /\ Len(req[r].calls) = 2
       /\ IsCreate(req[r].calls[2], req[r].params)
       /\ Done(r) =>
            /\ Len(req[r].resps) = 2
            /\ (req[r].outcome.kind = "reply") = req[r].resps[2].ok
            /\ req[r].outcome.detail = req[r].resps[2].err

(* Whether an argument object violates a declared shape: a required key    *)
(* is missing, a key has a value of the wrong type, or a key is not        *)
(* declared.                                                               *)
ViolatesShape(shape, raw) ==
  \/ \E k \in DOMAIN shape : shape[k].presence = "required" /\ k \notin DOMAIN raw
  \/ \E k \in (DOMAIN shape) \cap (DOMAIN raw) : ~Accepts(shape[k], raw[k])
  \/ \E k \in DOMAIN raw : k \notin DOMAIN shape

(* C3: a call of a registered operation whose arguments violate the        *)
(* operation's schema ends in an InvalidArguments fault, no handler runs   *)
(* and no outbound call is made.                                           *)
C3_InvalidArgumentsBeforeAnyCall ==
  \A r \in Slots :
    /\ req[r].pc # "idle"
    /\ req[r].name \in DOMAIN registry
    /\ ViolatesShape(Schema(registry[req[r].name].inputSchema).shape, req[r].raw)
    => /\ Done(r)
       /\ req[r].outcome.kind = "fault"
       /\ req[r].outcome.fault = "InvalidArguments"
       /\ ~Ran(r)
       /\ req[r].calls = << >>

C3_Witness ==
  \E r \in Slots :
    /\ Done(r)
    /\ req[r].name = "affinity_create_person"
    /\ DOMAIN req[r].raw = {"first_name"}
    /\ req[r].outcome.fault = "InvalidArguments"
    /\ req[r].calls = << >>

(* C4: a call of a name that is not registered yields an UnknownOperation  *)
(* fault, no handler runs and no outbound call is made, whatever calls     *)
(* came before.                                                            *)
C4_UnknownOperationNoCall ==
  \A r \in Slots :
    /\ req[r].pc # "idle"
    /\ req[r].name # "tools/list"
    /\ req[r].name \in UnknownNames \/ req[r].name \notin DOMAIN registry
    => /\ Done(r)
       /\ req[r].outcome.kind = "fault"
       /\ req[r].outcome.fault = "UnknownOperation"
       /\ ~Ran(r)
       /\ req[r].calls = << >>

C4_Witness ==
  \E r, q \in Slots :
    /\ r # q
    /\ Done(q) /\ req[q].outcome.kind = "reply" /\ Ran(q)
    /\ Done(r)
    /\ req[r].name = "affinity_delete_person"
    /\ req[r].outcome.fault = "UnknownOperation"
    /\ req[r].calls = << >>

(* C5: for every operation but the field-value update, a failed remote     *)
(* call ends the invocation in a fault that carries the failure; there is  *)
(* no reply and no second outbound call.                                   *)
C5_RemoteFailureSurfacedNoRetry ==
  \A r \in Slots :
    /\ Ran(r)
    /\ req[r].name # "affinity_update_field_value"
    /\ Len(req[r].resps) >= 1
    /\ ~req[r].resps[1].ok
    => /\ Done(r)
       /\ req[r].outcome = Fault("RemoteCallFailed", req[r].resps[1].err)
       /\ Len(req[r].calls) = 1
       /\ Len(req[r].resps) = 1

C5_Witness ==
  \E r \in Slots :
    /\ Done(r)
    /\ req[r].name = "affinity_search_people"
    /\ req[r].resps = << Fail("timeout") >>
    /\ req[r].outcome.fault = "RemoteCallFailed"
    /\ Len(req[r].calls) = 1

NoteKeys == {"person_ids", "organization_ids", "opportunity_ids"}

NoteKey(parentType) ==
  CASE parentType = "person" -> "person_ids"
    [] parentType = "organization" -> "organization_ids"
    [] parentType = "opportunity" -> "opportunity_ids"

(* C6: the body of the POST of a note holds exactly one of person_ids,     *)
(* organization_ids and opportunity_ids, the one for parent_type, and its  *)
(* value is the collection holding only parent_id.                         *)
C6_NoteBodyMapsParentType ==
  \A r \in Slots :
    req[r].name = "affinity_create_note" /\ Ran(r) =>
      LET c == req[r].calls[1]
          key == NoteKey(req[r].params.parent_type.s)
      IN /\ c.method = "POST"
         /\ c.path = Path("/notes", NoVal, "")
         /\ (DOMAIN c.body) \cap NoteKeys = {key}
         /\ c.body[key] = ArrNum(req[r].params.parent_id.n)

PagedTools ==
  {"affinity_search_people", "affinity_search_organizations",
   "affinity_search_opportunities", "affinity_get_list_entries"}

(* C7: the GET of a search operation and of list-entry retrieval carries   *)
(* page_size = 20 when the caller supplies none, and the caller's value    *)
(* when one is supplied.                                                   *)
C7_PageSizeDefaultOrSupplied ==
  \A r \in Slots :
    req[r].name \in PagedTools /\ Ran(r) =>
      LET c == req[r].calls[1]
      IN /\ c.method = "GET"
         /\ "page_size" \in DOMAIN c.query
         /\ c.query.page_size =
              IF "page_size" \in DOMAIN req[r].raw
              THEN req[r].raw.page_size
              ELSE Num(20)

C7_Witness ==
  \E r \in Slots :
    /\ req[r].name = "affinity_get_list_entries"
    /\ Ran(r)
    /\ "page_size" \notin DOMAIN req[r].raw
    /\ req[r].calls[1].query.page_size = Num(20)

(* C8: a call in flight shares no mutable state that another call writes:  *)
(* while a call is in flight on its open connection, the server's          *)
(* transport is the transport of that call; no other request replaces it   *)
(* or closes it.                                                           *)
C8_TransportNotReplacedOrClosed ==
  \A r \in Slots :
    req[r].pc = "await" /\ req[r].conn = "open" => serverTransport = r

Descriptor(r, name) ==
  CHOOSE d \in {Registrations(r)[i] : i \in 1..Len(Registrations(r))} :
    d.name = name

(* C9: every name is registered at most once, so startup never fails on a  *)
(* registration, and once the server listens the registry is the same      *)
(* function from the registered names to their descriptors in every        *)
(* state, across list and invoke requests.                                 *)
C9_RegistryFixedAfterStartup ==
  /\ phase # "fatal"
  /\ Cardinality(DOMAIN registry) = regIdx
  /\ phase = "serving" =>
       /\ regIdx = Len(Registrations(rev))
       /\ registry = [n \in ToolNames(rev) |-> Descriptor(rev, n)]
       /\ \A r \in Slots :
            req[r].name = "tools/list" => req[r].listed = ToolNames(rev)

C9_Witness ==
  /\ phase = "serving"
  /\ Cardinality(DOMAIN registry) = 19
  /\ resolve(registry, "affinity_update_field_value")
       = {Tool("affinity_update_field_value", "UpdateFieldValueSchema", FALSE)}
  /\ \E r \in Slots : req[r].name = "tools/list"
  /\ \E r \in Slots : Done(r) /\ Ran(r)

SearchGetListOps ==
  {"affinity_search_people", "affinity_get_person",
   "affinity_search_organizations", "affinity_get_organization",
   "affinity_search_opportunities", "affinity_get_notes",
   "affinity_list_all_lists", "affinity_get_list_entries",
   "affinity_get_all_fields", "affinity_get_field_values"}

CreateAddOps ==
  {"affinity_create_person", "affinity_create_organization",
   "affinity_create_opportunity", "affinity_create_note",
   "affinity_add_to_list"}

UpdateOps ==
  {"affinity_update_person", "affinity_update_organization",
   "affinity_update_field_value"}

RemoveOps == {"affinity_remove_from_list"}

MethodOfKind(name) ==
  CASE name \in SearchGetListOps -> "GET"
    [] name \in CreateAddOps -> "POST"
    [] name \in UpdateOps -> "PUT"
    [] name \in RemoveOps -> "DELETE"
    [] OTHER -> ""

(* C10: an invocation that passes validation and whose remote call         *)
(* succeeds makes exactly one outbound call, with the method of its kind   *)
(* of operation; affinity_remove_from_list with list_entry_id = n makes    *)
(* one DELETE to the list-entry path of n and replies "Removed from list   *)
(* successfully".                                                          *)
C10_OneCallMethodByKind ==
  \A r \in Slots :
    Ran(r) /\ Len(req[r].resps) >= 1 /\ req[r].resps[1].ok =>
      /\ Done(r)
      /\ req[r].outcome.kind = "reply"
      /\ Len(req[r].calls) = 1
      /\ req[r].calls[1].method = MethodOfKind(req[r].name)
      /\ req[r].name = "affinity_remove_from_list" =>
           /\ req[r].calls[1]
                = Call("DELETE",
                       Path("/list-entries/", req[r].raw.list_entry_id, ""),
                       NoArgs, NoArgs)
           /\ req[r].outcome.reply.text = "Removed from list successfully"

C10_Witness ==
  \E r \in Slots :
    /\ Done(r)
    /\ req[r].name = "affinity_remove_from_list"
    /\ req[r].raw = [list_entry_id |-> Num(7)]
    /\ req[r].calls = << Call("DELETE", Path("/list-entries/", Num(7), ""),
                              NoArgs, NoArgs) >>
    /\ req[r].outcome = Reply(Text("Removed from list successfully", NoData))

====
